---------------------------- MODULE Spec2Model ----------------------------
(***************************************************************************)
(* TimeIt (src/time_it.h): scope timers with a per-thread depth counter,   *)
(* a tree sink and a CSV sink, and a scoped installer of output files.     *)
(*                                                                         *)
(* A `long` duration is held as its decimal digits, most significant       *)
(* first, so that values beyond 2^31 can be formatted; <<0>> is zero.      *)
(***************************************************************************)
EXTENDS Integers, Sequences, FiniteSets, TLC

(***************************************************************************)
(* Decimal digit sequences.                                                *)
(***************************************************************************)
RECURSIVE Strip(_)
\* a digit sequence without its leading zeros (<<0>> for zero)
Strip(s) ==
    IF Len(s) <= 1 THEN (IF s = <<>> THEN <<0>> ELSE s)
    ELSE IF Head(s) = 0 THEN Strip(Tail(s)) ELSE s

RECURSIVE Val(_)
\* the integer a short digit sequence denotes
Val(s) == IF s = <<>> THEN 0 ELSE Val(SubSeq(s, 1, Len(s) - 1)) * 10 + s[Len(s)]

RECURSIVE IntDigits(_)
\* the decimal digits of a natural number
IntDigits(n) == IF n < 10 THEN <<n>> ELSE Append(IntDigits(n \div 10), n % 10)

Zeros(k) == [i \in 1..k |-> 0]

\* a < b, both without leading zeros
DLess(a, b) ==
    \/ Len(a) < Len(b)
    \/ /\ Len(a) = Len(b)
       /\ \E i \in 1..Len(a) :
            /\ a[i] < b[i]
            /\ \A j \in 1..(i - 1) : a[j] = b[j]

DLeq(a, b) == a = b \/ DLess(a, b)

RECURSIVE SubAligned(_, _, _)
\* a - b - borrow for two sequences of one length with a >= b + borrow
SubAligned(a, b, borrow) ==
    IF a = <<>> THEN <<>>
    ELSE LET n == Len(a)
             x == a[n] - b[n] - borrow
         IN  Append(SubAligned(SubSeq(a, 1, n - 1), SubSeq(b, 1, n - 1),
                               IF x < 0 THEN 1 ELSE 0),
                    IF x < 0 THEN x + 10 ELSE x)

\* a - b for a >= b
DSub(a, b) == Strip(SubAligned(a, Zeros(Len(a) - Len(b)) \o b, 0))


(***************************************************************************)
(* print_scientific (src/time_it.h 49-64).  `value` is the duration as a   *)
(* double; the conversion is exact up to 2^53 and does not move the three  *)
(* decimals of the durations drawn here beyond it.                         *)
(***************************************************************************)

\* log10(value) of line 60 is the logarithm rounded to a 53-bit double.  For
\* an integer just below 10^n the real logarithm is n - (10^n - d)/(10^n ln 10);
\* it rounds to n itself when that distance is at most half a unit in the last
\* place of n.  No integer is that close for n <= 12; 10^15 - 1 and 10^15 - 2
\* are, and so are the integers from 10^18 - 4160 on (the conversion to double
\* included).  Log10Slack(n) is the largest such distance below 10^n.
Log10Slack(n) == IF n < 15 THEN 0 ELSE IF n < 18 THEN 2 ELSE 4160

\* floor(log10v / 3.0) of line 61, for a positive duration d of n digits: the
\* real floor(log10 d) is n - 1, and log10v is n when d is within the slack of
\* 10^n.  The division by 3.0 never rounds a double below 3k up to k.
FloorLog10Div3(d) ==
    LET n == Len(d) IN
    IF /\ n % 3 = 0
       /\ Log10Slack(n) > 0
       /\ DLeq(DSub(<<1>> \o Zeros(n), d), IntDigits(Log10Slack(n)))
    THEN n \div 3
    ELSE (n - 1) \div 3

\* exp3 = ((int)floor(log10v / 3.0)) * 3   (line 61)
Exp3(d) == FloorLog10Div3(d) * 3

\* scaled = value / pow(10.0, exp3) printed with "%.3f" (lines 62-63), in
\* thousandths: the quotient rounded to three decimals.  The quotient is exact
\* to 53 bits, which decides every case but an exact decimal tie (a next digit
\* 5 followed by zeros only): there the binary quotient lies just above or just
\* below the tie, and both roundings are admitted.
Thousandths(d, e) ==
    IF e < 3 THEN {Val(d) * 1000}
    ELSE LET w    == IF Len(d) > e - 3 THEN d ELSE Zeros(e - 2 - Len(d)) \o d
             cut  == Len(w) - (e - 3)
             p    == Val(SubSeq(w, 1, cut))
             rest == SubSeq(w, cut + 1, Len(w))
             half == <<5>> \o Zeros(Len(rest) - 1)
         IN  IF rest = <<>> THEN {p}
             ELSE IF rest = half THEN {p, p + 1}
             ELSE IF DLess(Strip(rest), half) THEN {p}
             ELSE {p + 1}

\* the three decimals of "%.3f"
Frac3(m) == <<(m % 1000) \div 100, (m % 100) \div 10, m % 10>>

\* What print_scientific writes to `out`, as the set of possible renderings
\* [int, frac, exp]: the mantissa's integer digits, its decimals, the exponent.
print_scientific(d) ==
    IF d = <<0>>
    THEN {[int |-> <<0>>, frac |-> <<0>>, exp |-> 0]}
    ELSE {[int |-> IntDigits(m \div 1000), frac |-> Frac3(m), exp |-> Exp3(d)] :
            m \in Thousandths(d, Exp3(d))}

RECURSIVE DigitText(_)
\* the characters of a digit sequence
DigitText(s) == IF s = <<>> THEN <<>> ELSE <<ToString(Head(s))>> \o DigitText(Tail(s))

\* What print_scientific writes for a negative elapsed_ns of magnitude d, as
\* text.  value == 0 fails (line 54); log10 of a negative value is NaN (line
\* 60), and the conversion of NaN to int (line 61) is undefined.  A build
\* whose conversion yields INT_MIN leaves exp3 at INT_MIN, pow(10.0, exp3) is
\* 0 and scaled is -inf; a build whose conversion yields 0 prints value
\* itself with exponent 0.
print_scientific_negative(d) ==
    { <<"-inf", "e", "-2147483648">>,
      <<"-">> \o DigitText(d) \o <<".", "0", "0", "0", "e", "0">> }

\* the characters of a rendering: "%.3fe%d", or "0.0e0"
SciText(r) == DigitText(r.int) \o <<".">> \o DigitText(r.frac) \o <<"e", ToString(r.exp)>>


(***************************************************************************)
(* The program: threads running functions of the source files that include *)
(* the header.  Every static of the header exists once per including file. *)
(***************************************************************************)
NumThreads == 2

MaxTimers == 3

MaxInstalls == 1

MaxNoops == 1

MaxSets == 1

Threads == 1..NumThreads

\* the thread that runs main()
MainThread == CHOOSE th \in Threads : th - 1 \notin Threads

\* the source files (translation units) that include time_it.h
Units == {"a", "b"}

Langs == {"c", "cpp"}

\* the instrumented functions
Funcs == {"main", "sub_task"}

\* the source file that defines a function
UnitOf(f) == IF f = "main" THEN "a" ELSE "b"

\* LOG_FUNC_NAME in function f (lines 93-104): __PRETTY_FUNCTION__ in C++,
\* __func__ in C
LOG_FUNC_NAME(lg, f) ==
    IF lg = "cpp" THEN (IF f = "main" THEN "int main()" ELSE "void sub_task()") ELSE f

Categories == {"work"}

Basenames == {"timings"}

\* FILE pointers: NULL, stderr, and the streams fopen has returned
NULL == [kind |-> "NULL", n |-> 0]

stderr == [kind |-> "stderr", n |-> 0]

File(i) == [kind |-> "file", n |-> i]

\* CLOCK_MONOTONIC as struct timespec: the reading at program start, and the
\* nanoseconds that pass from one reading to the next
NanosPerSec == 1000000000

Tick == 500

Epoch == [tv_sec |-> 0, tv_nsec |-> NanosPerSec - 2 * Tick]

Advance(ts, ns) ==
    [ tv_sec  |-> ts.tv_sec + (ts.tv_nsec + ns) \div NanosPerSec,
      tv_nsec |-> (ts.tv_nsec + ns) % NanosPerSec ]

VARIABLES
    lang,                 \* the language each source file is compiled as
    link,                 \* the source file whose statics a file's scoped objects use
    LOG_ENABLE_TIMING,    \* the master switch of each source file
    host,                 \* the host program: how many timers, installers, calls it makes
    log_depth,            \* per source file and thread
    time_it_tree_file,    \* per source file
    time_it_csv_file,
    nulled,               \* per format: the last sink setting anywhere stored NULL
    time_it_enable_tree,
    time_it_enable_csv,
    stack,                \* per thread: its live scoped objects, oldest first
    files,                \* the streams fopen has returned: path, open, installer
    fclosed,              \* the streams passed to fclose, in order
    released,             \* the installers released
    writes,               \* every record written, in order
    timers,               \* per timer armed: thread, source file, enclosing timers
    finished,             \* the timers finished, in order
    now,                  \* the last reading of the monotonic clock
    installs,             \* installers constructed so far
    noops,                \* macros executed with timing compiled out
    sets,                 \* setter calls made so far
    fmt_in,               \* print_scientific alone: its argument
    fmt_out,              \* print_scientific alone: what it wrote
    pc,                   \* per thread: where it stands inside a timer's finish
    job,                  \* per thread: the locals of the finish it is running
    stream                \* per stream: the fprintf / fputs calls since its last newline

config == <<lang, link, LOG_ENABLE_TIMING, host>>

flags == <<time_it_enable_tree, time_it_enable_csv>>

sinks == <<time_it_tree_file, time_it_csv_file, nulled>>

fmt == <<fmt_in, fmt_out>>

budget == <<installs, noops, sets>>

steps == <<pc, job, stream>>

vars == <<lang, link, LOG_ENABLE_TIMING, host, log_depth, time_it_tree_file,
          time_it_csv_file, nulled, time_it_enable_tree, time_it_enable_csv, stack, files, fclosed, released,
          writes, timers, finished, now, installs, noops, sets, fmt_in, fmt_out,
          pc, job, stream>>

\* the part of the state a scope exit may change, as one value
Cur ==
    [ log_depth |-> log_depth, tree_file |-> time_it_tree_file,
      csv_file |-> time_it_csv_file, nulled |-> nulled, stack |-> stack, files |-> files,
      fclosed |-> fclosed, released |-> released, writes |-> writes,
      finished |-> finished, now |-> now ]

Becomes(s) ==
    /\ log_depth' = s.log_depth
    /\ time_it_tree_file' = s.tree_file
    /\ time_it_csv_file' = s.csv_file
    /\ nulled' = s.nulled
    /\ stack' = s.stack
    /\ files' = s.files
    /\ fclosed' = s.fclosed
    /\ released' = s.released
    /\ writes' = s.writes
    /\ finished' = s.finished
    /\ now' = s.now


(***************************************************************************)
(* Which statics the code of a source file uses.  The statics (lines       *)
(* 38-41, 114-116) have internal linkage: one copy per including file.     *)
(* In C the macros expand in the file itself.  In C++ the members of       *)
(* TimeItTimer and TimeItBasenameFiles are inline functions with external  *)
(* linkage: a build that inlines them uses the statics of the file of the  *)
(* call, a build that does not keeps one copy of each member for all C++   *)
(* files, bound to the statics of one of them.                             *)
(***************************************************************************)
Links(lg, en) ==
    { l \in [Units -> Units] :
        /\ \A u \in Units : (lg[u] = "c" \/ ~en[u]) => l[u] = u
        /\ \A u \in Units : lg[l[u]] = lg[u] /\ en[l[u]] = en[u]
        /\ \/ \A u \in Units : l[u] = u
           \/ \E w \in Units : \A u \in Units : (lg[u] = "cpp" /\ en[u]) => l[u] = w }

(***************************************************************************)
(* log_timer_end (lines 67-87).                                            *)
(***************************************************************************)
\* time_it_tree_file ? time_it_tree_file : stderr   (lines 69-70)
Resolve(f) == IF f # NULL THEN f ELSE stderr

IsClosed(s, h) == h.kind = "file" /\ ~s.files[h.n].open

\* One record written to stream h.  Writing through a stream that fclose has
\* released is undefined: the record may reach the file or be lost.  The
\* event notes what the writing thread's depth counter holds at that moment.
Fwrite(s, h, fm, id, line) ==
    { [s EXCEPT !.writes = Append(@, [h |-> h, fmt |-> fm, id |-> id, line |-> line,
                                      stale |-> IsClosed(s, h), landed |-> b,
                                      counter |-> s.log_depth[link[timers[id].unit]]
                                                             [timers[id].thread]])] :
        b \in IF IsClosed(s, h) THEN BOOLEAN ELSE {TRUE} }

Indent(depth) == [i \in 1..depth |-> "    "]

\* lines 74-78
TreeLine(t, r) ==
    Indent(t.depth) \o <<t.name, " [", t.category, "]: ">> \o SciText(r) \o <<"\n">>

\* lines 83-85
CsvLine(t, r) ==
    <<ToString(t.depth), ",", t.name, ",", t.category, ",">> \o SciText(r) \o <<"\n">>

\* lines 72-79
EmitTree(s, t, r) ==
    IF time_it_enable_tree[link[t.unit]]
    THEN Fwrite(s, Resolve(s.tree_file[link[t.unit]]), "tree", t.id, TreeLine(t, r))
    ELSE {s}

\* variant: the tabular record guarded by the tree flag
EmitCsvOnTreeFlag(s, t, r) ==
    IF time_it_enable_tree[link[t.unit]]
    THEN Fwrite(s, Resolve(s.csv_file[link[t.unit]]), "csv", t.id, CsvLine(t, r))
    ELSE {s}

\* lines 81-86
EmitCsv(s, t, r) ==
    IF time_it_enable_csv[link[t.unit]]
    THEN Fwrite(s, Resolve(s.csv_file[link[t.unit]]), "csv", t.id, CsvLine(t, r))
    ELSE {s}

log_timer_end(s, t, elapsed_ns) ==
    UNION { UNION { EmitCsv(s1, t, r) : s1 \in EmitTree(s, t, r) } :
            r \in print_scientific(IntDigits(elapsed_ns)) }

(***************************************************************************)
(* The scoped timer: TimeItTimer (lines 122-150) and, in C, TIME_IT with   *)
(* log_timer_cleanup (lines 197-215).                                      *)
(***************************************************************************)
\* variant: the seconds and the nanoseconds each subtracted on their own
ElapsedFieldwise(start, end) ==
    (end.tv_sec - start.tv_sec) * NanosPerSec
    + (IF end.tv_nsec < start.tv_nsec THEN start.tv_nsec - end.tv_nsec
       ELSE end.tv_nsec - start.tv_nsec)

\* lines 140-142, 201-203
Elapsed(start, end) ==
    (end.tv_sec - start.tv_sec) * NanosPerSec + (end.tv_nsec - start.tv_nsec)

\* clock_gettime(CLOCK_MONOTONIC, ...): the readings that can follow the last
ClockReads(last) == { Advance(last, Tick) }

\* t_.depth = log_depth++   (lines 129, 214)
DepthSnapshot(u, th) == log_depth[link[u]][th]

\* variant: one counter for all threads, as without thread_local
DepthAfterArmShared(u, th) ==
    [log_depth EXCEPT ![link[u]] = [x \in Threads |-> @[x] + 1]]

DepthAfterArm(u, th) == [log_depth EXCEPT ![link[u]][th] = @ + 1]

\* log_depth--   (lines 145, 206)
DepthAfterFinish(s, u, th) == [s.log_depth EXCEPT ![link[u]][th] = @ - 1]

TimerObj(id, f, cat, start, depth) ==
    [ kind |-> "timer", id |-> id, unit |-> UnitOf(f), func |-> f,
      name |-> LOG_FUNC_NAME(lang[UnitOf(f)], f), category |-> cat,
      start |-> start, depth |-> depth, tree_f |-> NULL, csv_f |-> NULL,
      basename |-> "" ]

\* variant: the depth is decreased before the record is logged
FinishTimerDepthFirst(s, th, t) ==
    UNION { { [s2 EXCEPT !.finished = Append(@, t.id)] :
              s2 \in log_timer_end([s EXCEPT !.now = end,
                                             !.log_depth = DepthAfterFinish(s, t.unit, th)],
                                   t, Elapsed(t.start, end)) } :
            end \in ClockReads(s.now) }

\* ~TimeItTimer (lines 136-146) and log_timer_cleanup (lines 197-207): read the
\* clock, log, then decrease the depth
FinishTimer(s, th, t) ==
    UNION { { [s2 EXCEPT !.log_depth = DepthAfterFinish(s2, t.unit, th),
                         !.finished = Append(@, t.id)] :
              s2 \in log_timer_end([s EXCEPT !.now = end], t, Elapsed(t.start, end)) } :
            end \in ClockReads(s.now) }


(***************************************************************************)
(* The scoped installer: TimeItBasenameFiles (lines 155-192) and, in C,    *)
(* SET_TIME_IT_OUTPUT_FILE_BASENAME with time_it_file_cleanup (217-234).   *)
(***************************************************************************)
\* snprintf(tree_path, ..., "%s.log", basename)   (lines 162, 229)
TreePath(basename) == <<basename, ".log">>

\* snprintf(csv_path, ..., "%s.csv", basename)   (lines 163, 230)
CsvPath(basename) == <<basename, ".csv">>

\* fopen(path, "a"): a new stream, or NULL when the file cannot be opened
Fopen(fs, path, ok, by) ==
    IF ok THEN [files |-> Append(fs, [path |-> path, open |-> TRUE, by |-> by]),
                f |-> File(Len(fs) + 1)]
    ELSE [files |-> fs, f |-> NULL]

\* fclose(h)
Fclose(s, h) ==
    [s EXCEPT !.fclosed = Append(@, h),
              !.files = IF h.kind = "file" THEN [@ EXCEPT ![h.n].open = FALSE] ELSE @]

\* what the installer keeps of a stream: tree_f_ / csv_f_ fall back to stderr
\* (lines 168-171); the C locals keep fopen's result (lines 231-232)
Kept(lg, f) == IF lg = "cpp" /\ f = NULL THEN stderr ELSE f

\* what the installer assigns to a sink field (lines 173-174, 233-234)
Installed(f) == IF f # NULL THEN f ELSE stderr

FilesObj(id, fn, basename, tree_f, csv_f) ==
    [ kind |-> "files", id |-> id, unit |-> UnitOf(fn), func |-> fn, name |-> "",
      category |-> "",
      start |-> [tv_sec |-> 0, tv_nsec |-> 0], depth |-> 0,
      tree_f |-> tree_f, csv_f |-> csv_f, basename |-> basename ]

\* variant: every stream the installer holds is closed
CloseHeld(s, f) == IF f # NULL THEN Fclose(s, f) ELSE s

\* if (f && f != stderr) fclose(f)   (lines 179-182, 218-222)
CloseOwned(s, f) == IF f # NULL /\ f # stderr THEN Fclose(s, f) ELSE s

\* the sink fields after a release: the C++ destructor resets both to stderr
\* (lines 183-184); the C cleanup only closes the streams
SinkAfterRelease(lg, sink) == IF lg = "cpp" THEN stderr ELSE sink

\* ~TimeItBasenameFiles (lines 177-185); in C the cleanups of the two locals,
\* in reverse order of declaration (lines 218-226)
ReleaseFiles(s, o) ==
    LET closed == IF lang[o.unit] = "cpp"
                  THEN CloseOwned(CloseOwned(s, o.tree_f), o.csv_f)
                  ELSE CloseOwned(CloseOwned(s, o.csv_f), o.tree_f)
        u == link[o.unit]
    IN  [closed EXCEPT !.tree_file[u] = SinkAfterRelease(lang[o.unit], @),
                       !.csv_file[u] = SinkAfterRelease(lang[o.unit], @),
                       !.nulled = IF lang[o.unit] = "cpp"
                                  THEN [tree |-> FALSE, csv |-> FALSE] ELSE @,
                       !.released = @ \cup {o.id}]

(***************************************************************************)
(* Leaving scopes: the scoped objects of a thread are destroyed in reverse *)
(* order of construction.                                                  *)
(***************************************************************************)
\* variant: the oldest scoped object of the thread is destroyed first
DestroyOldest(s, th) ==
    LET o  == s.stack[th][1]
        s0 == [s EXCEPT !.stack[th] = Tail(@)]
    IN  IF o.kind = "timer" THEN FinishTimer(s0, th, o) ELSE {ReleaseFiles(s0, o)}

\* variant: the youngest scoped object goes out of scope with no cleanup run
DropTop(s, th) ==
    {[s EXCEPT !.stack[th] = SubSeq(@, 1, Len(@) - 1)]}

DestroyTop(s, th) ==
    LET n  == Len(s.stack[th])
        o  == s.stack[th][n]
        s0 == [s EXCEPT !.stack[th] = SubSeq(@, 1, n - 1)]
    IN  IF o.kind = "timer" THEN FinishTimer(s0, th, o) ELSE {ReleaseFiles(s0, o)}

RECURSIVE Unwind(_, _, _)
\* the k youngest scoped objects of thread th destroyed, youngest first
Unwind(s, th, k) ==
    IF k = 0 THEN {s}
    ELSE UNION { Unwind(s1, th, k - 1) : s1 \in DestroyTop(s, th) }

\* how many of the youngest objects of a stack are marked in ok, without a gap
TopRun(st, ok) ==
    CHOOSE k \in 0..Len(st) :
        /\ \A i \in (Len(st) - k + 1)..Len(st) : ok[i]
        /\ k = Len(st) \/ ~ok[Len(st) - k]


(***************************************************************************)
(* The operations.                                                         *)
(***************************************************************************)
\* a thread that is not inside a timer's finish has no locals of one
NoJob == [t |-> NULL, elapsed_ns |-> 0, tree_out |-> NULL, csv_out |-> NULL,
          live |-> {}, done |-> <<>>, todo |-> <<>>]

\* the installers of a host program with several threads
MTInstalls == 1

\* the streams a finish run stepwise can write to: stderr and the two files
\* of each installer
Streams == {stderr} \cup { File(i) : i \in 1..(2 * MTInstalls) }

Init ==
    /\ lang \in [Units -> Langs]
    /\ LOG_ENABLE_TIMING \in [Units -> BOOLEAN]
    /\ link \in Links(lang, LOG_ENABLE_TIMING)
    /\ host = [timers |-> MaxTimers, installs |-> MaxInstalls, noops |-> MaxNoops,
               sets |-> MaxSets]
    /\ log_depth = [u \in Units |-> [th \in Threads |-> 0]]
    /\ time_it_tree_file = [u \in Units |-> NULL]
    /\ time_it_csv_file = [u \in Units |-> NULL]
    /\ nulled = [tree |-> FALSE, csv |-> FALSE]
    /\ time_it_enable_tree = [u \in Units |-> TRUE]
    /\ time_it_enable_csv = [u \in Units |-> TRUE]
    /\ stack = [th \in Threads |-> <<>>]
    /\ files = <<>>
    /\ fclosed = <<>>
    /\ released = {}
    /\ writes = <<>>
    /\ timers = <<>>
    /\ finished = <<>>
    /\ now = Epoch
    /\ sets = 0
    /\ installs = 0
    /\ noops = 0
    /\ fmt_in = <<0>>
    /\ fmt_out = <<>>
    /\ pc = [th \in Threads |-> "idle"]
    /\ job = [th \in Threads |-> NoJob]
    /\ stream = [h \in Streams |-> <<>>]

\* the timers among the scoped objects of a stack
LiveTimers(st) == { st[i].id : i \in { j \in 1..Len(st) : st[j].kind = "timer" } }

\* TIME_IT(cat) in function fn on thread th (lines 125-131, 209-215)
TimeIt(th, fn, cat) ==
    /\ LOG_ENABLE_TIMING[UnitOf(fn)]
    /\ Len(timers) < host.timers
    /\ \E start \in ClockReads(now) :
         /\ stack' = [stack EXCEPT ![th] =
                Append(@, TimerObj(Len(timers) + 1, fn, cat, start,
                                   DepthSnapshot(UnitOf(fn), th)))]
         /\ now' = start
    /\ log_depth' = DepthAfterArm(UnitOf(fn), th)
    /\ timers' = Append(timers, [thread |-> th, unit |-> UnitOf(fn),
                                 encl |-> LiveTimers(stack[th])])
    /\ UNCHANGED <<config, flags, sinks, files, fclosed, released, writes, finished,
                   installs, noops, sets, fmt, steps>>

\* SET_TIME_IT_OUTPUT_FILE_BASENAME(basename) in function fn (lines 158-175,
\* 224-234); tree_ok and csv_ok tell whether each fopen succeeds
SetBasename(th, fn, basename, tree_ok, csv_ok) ==
    /\ LOG_ENABLE_TIMING[UnitOf(fn)]
    /\ installs < host.installs
    /\ installs' = installs + 1
    /\ LET u  == UnitOf(fn)
           t  == Fopen(files, TreePath(basename), tree_ok, installs + 1)
           c  == Fopen(t.files, CsvPath(basename), csv_ok, installs + 1)
       IN  /\ files' = c.files
           /\ time_it_tree_file' = [time_it_tree_file EXCEPT ![link[u]] = Installed(t.f)]
           /\ time_it_csv_file' = [time_it_csv_file EXCEPT ![link[u]] = Installed(c.f)]
           /\ nulled' = [tree |-> FALSE, csv |-> FALSE]
           /\ stack' = [stack EXCEPT ![th] =
                  Append(@, FilesObj(installs + 1, fn, basename,
                                     Kept(lang[u], t.f), Kept(lang[u], c.f)))]
    /\ UNCHANGED <<config, flags, log_depth, fclosed, released, writes, timers, finished,
                   now, noops, sets, fmt, steps>>

\* the scoped objects a thread's youngest k are, when it leaves their scopes
Leave(th, k) ==
    /\ \E s \in Unwind(Cur, th, k) : Becomes(s)
    /\ UNCHANGED <<config, flags, timers, budget, fmt, steps>>

\* control falls off the end of the block of the youngest scoped object
ExitBlock(th) ==
    /\ stack[th] # <<>>
    /\ Leave(th, 1)

\* a return statement: every scoped object of the running function goes
Return(th) ==
    /\ stack[th] # <<>>
    /\ Leave(th, TopRun(stack[th], [i \in 1..Len(stack[th]) |->
                                       stack[th][i].func = stack[th][Len(stack[th])].func]))

\* a C++ exception propagating out of k scopes of C++ code
Throw(th) ==
    \E k \in 1..TopRun(stack[th], [i \in 1..Len(stack[th]) |->
                                      lang[stack[th][i].unit] = "cpp"]) : Leave(th, k)

\* TIME_IT(cat) with LOG_ENABLE_TIMING off: ((void)0)   (line 108)
TimeItDisabled(th, fn) ==
    /\ ~LOG_ENABLE_TIMING[UnitOf(fn)]
    /\ noops < host.noops
    /\ noops' = noops + 1
    /\ UNCHANGED <<config, flags, sinks, log_depth, stack, files, fclosed, released, writes, timers,
                   finished, now, installs, sets, fmt, steps>>

\* SET_TIME_IT_OUTPUT_FILE_BASENAME(name) with LOG_ENABLE_TIMING off   (line 109)
SetBasenameDisabled(th, fn) ==
    /\ ~LOG_ENABLE_TIMING[UnitOf(fn)]
    /\ noops < host.noops
    /\ noops' = noops + 1
    /\ UNCHANGED <<config, flags, sinks, log_depth, stack, files, fclosed, released, writes, timers,
                   finished, now, installs, sets, fmt, steps>>

\* the setters, called from code of source file u (lines 43-46); a flag
\* setter that stores the value already there is left out
time_it_set_tree_file(u, f) ==
    /\ sets < host.sets /\ sets' = sets + 1
    /\ time_it_tree_file' = [time_it_tree_file EXCEPT ![u] = f]
    /\ nulled' = [nulled EXCEPT !.tree = (f = NULL)]
    /\ UNCHANGED <<config, flags, time_it_csv_file, log_depth, stack, files, fclosed, released, writes,
                   timers, finished, now, installs, noops, fmt, steps>>

time_it_set_csv_file(u, f) ==
    /\ sets < host.sets /\ sets' = sets + 1
    /\ time_it_csv_file' = [time_it_csv_file EXCEPT ![u] = f]
    /\ nulled' = [nulled EXCEPT !.csv = (f = NULL)]
    /\ UNCHANGED <<config, flags, time_it_tree_file, log_depth, stack, files, fclosed, released, writes,
                   timers, finished, now, installs, noops, fmt, steps>>

time_it_set_tree(u, enable) ==
    /\ sets < host.sets /\ sets' = sets + 1
    /\ time_it_enable_tree[u] # enable
    /\ time_it_enable_tree' = [time_it_enable_tree EXCEPT ![u] = enable]
    /\ UNCHANGED <<config, sinks, time_it_enable_csv, log_depth, stack, files, fclosed, released, writes,
                   timers, finished, now, installs, noops, fmt, steps>>

time_it_set_csv(u, enable) ==
    /\ sets < host.sets /\ sets' = sets + 1
    /\ time_it_enable_csv[u] # enable
    /\ time_it_enable_csv' = [time_it_enable_csv EXCEPT ![u] = enable]
    /\ UNCHANGED <<config, sinks, time_it_enable_tree, log_depth, stack, files, fclosed, released, writes,
                   timers, finished, now, installs, noops, fmt, steps>>

\* the streams the host program passes to the file setters
HostStreams == {NULL, stderr}

\* one step of the program on the threads of T
Run(T) ==
    \/ \E th \in T, fn \in Funcs, cat \in Categories : TimeIt(th, fn, cat)
    \/ \E th \in T, fn \in Funcs, b \in Basenames, tree_ok, csv_ok \in BOOLEAN :
         SetBasename(th, fn, b, tree_ok, csv_ok)
    \/ \E th \in T : ExitBlock(th)
    \/ \E th \in T : Return(th)
    \/ \E th \in T : Throw(th)
    \/ \E th \in T, fn \in Funcs : TimeItDisabled(th, fn)
    \/ \E th \in T, fn \in Funcs : SetBasenameDisabled(th, fn)
    \/ \E u \in Units, f \in HostStreams : time_it_set_tree_file(u, f)
    \/ \E u \in Units, f \in HostStreams : time_it_set_csv_file(u, f)
    \/ \E u \in Units, e \in BOOLEAN : time_it_set_tree(u, e)
    \/ \E u \in Units, e \in BOOLEAN : time_it_set_csv(u, e)

\* a sequential host program: everything runs on the main thread
Next == Run({MainThread})

Spec == Init /\ [][Next]_vars


(***************************************************************************)
(* print_scientific alone, on durations around the powers of ten.          *)
(***************************************************************************)
MaxExp == 15

MaxOff == 3

MaxSmall == 12

\* 10^k - j and 10^k + j for 0 < j < 10
BelowPow(k, j) == DSub(<<1>> \o Zeros(k), <<j>>)

AbovePow(k, j) == <<1>> \o Zeros(k - 1) \o <<j>>

FmtInputs ==
    { IntDigits(n) : n \in 0..MaxSmall }
    \cup { BelowPow(k, j) : k \in 1..MaxExp, j \in 1..MaxOff }
    \cup { AbovePow(k, j) : k \in 1..MaxExp, j \in 0..MaxOff }
    \cup { <<1, 2, 3, 4, 5>> \o Zeros(k) : k \in 0..3 }

InitFmt ==
    /\ lang = [u \in Units |-> "c"]
    /\ LOG_ENABLE_TIMING = [u \in Units |-> TRUE]
    /\ link = [u \in Units |-> u]
    /\ host = [timers |-> 0, installs |-> 0, noops |-> 0, sets |-> 0]
    /\ log_depth = [u \in Units |-> [th \in Threads |-> 0]]
    /\ time_it_tree_file = [u \in Units |-> NULL]
    /\ time_it_csv_file = [u \in Units |-> NULL]
    /\ nulled = [tree |-> FALSE, csv |-> FALSE]
    /\ time_it_enable_tree = [u \in Units |-> TRUE]
    /\ time_it_enable_csv = [u \in Units |-> TRUE]
    /\ stack = [th \in Threads |-> <<>>]
    /\ files = <<>>
    /\ fclosed = <<>>
    /\ released = {}
    /\ writes = <<>>
    /\ timers = <<>>
    /\ finished = <<>>
    /\ now = Epoch
    /\ sets = 0
    /\ installs = 0
    /\ noops = 0
    /\ fmt_in \in FmtInputs
    /\ fmt_out = <<>>
    /\ pc = [th \in Threads |-> "idle"]
    /\ job = [th \in Threads |-> NoJob]
    /\ stream = [h \in Streams |-> <<>>]

\* print_scientific(out, elapsed_ns) called once on fmt_in
Format ==
    /\ fmt_out = <<>>
    /\ \E r \in print_scientific(fmt_in) : fmt_out' = <<r>>
    /\ UNCHANGED <<config, flags, sinks, log_depth, stack, files, fclosed, released, writes,
                   timers, finished, now, budget, fmt_in, steps>>

NextFmt == Format

SpecFmt == InitFmt /\ [][NextFmt]_vars


(***************************************************************************)
(* print_scientific alone, on negative durations.  log_timer_end hands its *)
(* elapsed_ns to print_scientific as it is (lines 77, 84), and the finishes *)
(* hand theirs to log_timer_end as computed (lines 144, 205).              *)
(***************************************************************************)
\* the magnitudes of the negative durations drawn
NegInputs == FmtInputs \ {<<0>>}

InitNeg ==
    /\ lang = [u \in Units |-> "c"]
    /\ LOG_ENABLE_TIMING = [u \in Units |-> TRUE]
    /\ link = [u \in Units |-> u]
    /\ host = [timers |-> 0, installs |-> 0, noops |-> 0, sets |-> 0]
    /\ log_depth = [u \in Units |-> [th \in Threads |-> 0]]
    /\ time_it_tree_file = [u \in Units |-> NULL]
    /\ time_it_csv_file = [u \in Units |-> NULL]
    /\ nulled = [tree |-> FALSE, csv |-> FALSE]
    /\ time_it_enable_tree = [u \in Units |-> TRUE]
    /\ time_it_enable_csv = [u \in Units |-> TRUE]
    /\ stack = [th \in Threads |-> <<>>]
    /\ files = <<>>
    /\ fclosed = <<>>
    /\ released = {}
    /\ writes = <<>>
    /\ timers = <<>>
    /\ finished = <<>>
    /\ now = Epoch
    /\ sets = 0
    /\ installs = 0
    /\ noops = 0
    /\ fmt_in \in NegInputs
    /\ fmt_out = <<>>
    /\ pc = [th \in Threads |-> "idle"]
    /\ job = [th \in Threads |-> NoJob]
    /\ stream = [h \in Streams |-> <<>>]

\* print_scientific(out, elapsed_ns) called once with elapsed_ns = -fmt_in
FormatNegative ==
    /\ fmt_out = <<>>
    /\ \E text \in print_scientific_negative(fmt_in) : fmt_out' = <<text>>
    /\ UNCHANGED <<config, flags, sinks, log_depth, stack, files, fclosed, released, writes,
                   timers, finished, now, budget, fmt_in, steps>>

NextNeg == FormatNegative

SpecNeg == InitNeg /\ [][NextNeg]_vars


(***************************************************************************)
(* A host program that nests one installer inside another.                 *)
(***************************************************************************)
NestTimers == 1

NestInstalls == 2

InitNest ==
    /\ lang \in [Units -> Langs]
    /\ LOG_ENABLE_TIMING = [u \in Units |-> TRUE]
    /\ link \in Links(lang, LOG_ENABLE_TIMING)
    /\ host = [timers |-> NestTimers, installs |-> NestInstalls, noops |-> 0, sets |-> 0]
    /\ log_depth = [u \in Units |-> [th \in Threads |-> 0]]
    /\ time_it_tree_file = [u \in Units |-> NULL]
    /\ time_it_csv_file = [u \in Units |-> NULL]
    /\ nulled = [tree |-> FALSE, csv |-> FALSE]
    /\ time_it_enable_tree = [u \in Units |-> TRUE]
    /\ time_it_enable_csv = [u \in Units |-> TRUE]
    /\ stack = [th \in Threads |-> <<>>]
    /\ files = <<>>
    /\ fclosed = <<>>
    /\ released = {}
    /\ writes = <<>>
    /\ timers = <<>>
    /\ finished = <<>>
    /\ now = Epoch
    /\ sets = 0
    /\ installs = 0
    /\ noops = 0
    /\ fmt_in = <<0>>
    /\ fmt_out = <<>>
    /\ pc = [th \in Threads |-> "idle"]
    /\ job = [th \in Threads |-> NoJob]
    /\ stream = [h \in Streams |-> <<>>]

NextNest ==
    \/ \E fn \in Funcs, cat \in Categories : TimeIt(MainThread, fn, cat)
    \/ \E fn \in Funcs, b \in Basenames, tree_ok, csv_ok \in BOOLEAN :
         SetBasename(MainThread, fn, b, tree_ok, csv_ok)
    \/ ExitBlock(MainThread)
    \/ Return(MainThread)
    \/ Throw(MainThread)

SpecNest == InitNest /\ [][NextNest]_vars


(***************************************************************************)
(* A host program with several threads.  The finish of a timer is run one  *)
(* statement at a time: nothing in lines 67-87 or in the destructors takes *)
(* a lock, so the statements of two threads interleave freely.             *)
(***************************************************************************)
MTTimers == 2

\* variant: name, category and duration written by one call
TreeFragmentsJoined(t, r) ==
    [i \in 1..t.depth |-> <<"    ">>]
    \o << <<t.name, " [", t.category, "]: ">> \o SciText(r), <<"\n">> >>

\* the fprintf / fputs calls of the tree branch, in order (lines 74-78)
TreeFragments(t, r) ==
    [i \in 1..t.depth |-> <<"    ">>]
    \o << <<t.name, " [", t.category, "]: ">>, SciText(r), <<"\n">> >>

\* the calls of the tabular branch, in order (lines 83-85)
CsvFragments(t, r) ==
    << <<ToString(t.depth), ",", t.name, ",", t.category, ",">>, SciText(r), <<"\n">> >>

\* the host programs: MTTimers timers and no installer, or one timer and
\* MTInstalls installers
MTHosts ==
    { [timers |-> MTTimers, installs |-> 0, noops |-> 0, sets |-> 0],
      [timers |-> 1, installs |-> MTInstalls, noops |-> 0, sets |-> 0] }

\* variant: the sink field is read again at every call
OutStreamReread(j, fm) ==
    Resolve(IF fm = "tree" THEN time_it_tree_file[link[j.t.unit]]
            ELSE time_it_csv_file[link[j.t.unit]])

\* the stream a branch writes to: the local resolved at lines 69-70
OutStream(j, fm) == IF fm = "tree" THEN j.tree_out ELSE j.csv_out

InitMT ==
    /\ lang \in [Units -> Langs]
    /\ LOG_ENABLE_TIMING = [u \in Units |-> TRUE]
    /\ link \in Links(lang, LOG_ENABLE_TIMING)
    /\ host \in MTHosts
    /\ log_depth = [u \in Units |-> [th \in Threads |-> 0]]
    /\ time_it_tree_file = [u \in Units |-> NULL]
    /\ time_it_csv_file = [u \in Units |-> NULL]
    /\ nulled = [tree |-> FALSE, csv |-> FALSE]
    /\ time_it_enable_tree = [u \in Units |-> TRUE]
    /\ time_it_enable_csv = [u \in Units |-> TRUE]
    /\ stack = [th \in Threads |-> <<>>]
    /\ files = <<>>
    /\ fclosed = <<>>
    /\ released = {}
    /\ writes = <<>>
    /\ timers = <<>>
    /\ finished = <<>>
    /\ now = Epoch
    /\ sets = 0
    /\ installs = 0
    /\ noops = 0
    /\ fmt_in = <<0>>
    /\ fmt_out = <<>>
    /\ pc = [th \in Threads |-> "idle"]
    /\ job = [th \in Threads |-> NoJob]
    /\ stream = [h \in Streams |-> <<>>]

\* TIME_IT(cat) by a thread that is not inside a finish
Arm(th, fn, cat) == pc[th] = "idle" /\ TimeIt(th, fn, cat)

\* SET_TIME_IT_OUTPUT_FILE_BASENAME(basename) by such a thread
Install(th, fn, basename, tree_ok, csv_ok) ==
    pc[th] = "idle" /\ SetBasename(th, fn, basename, tree_ok, csv_ok)

\* the youngest scoped object of th is an installer and th leaves its scope
Release(th) ==
    /\ pc[th] = "idle"
    /\ stack[th] # <<>>
    /\ stack[th][Len(stack[th])].kind = "files"
    /\ Leave(th, 1)

\* the youngest scoped object of th is a timer and th leaves its scope: the
\* clock is read and log_timer_end is entered (lines 139-144, 200-205)
BeginFinish(th) ==
    /\ pc[th] = "idle"
    /\ stack[th] # <<>>
    /\ stack[th][Len(stack[th])].kind = "timer"
    /\ \E end \in ClockReads(now) :
         /\ now' = end
         /\ job' = [job EXCEPT ![th] =
                [NoJob EXCEPT !.t = stack[th][Len(stack[th])],
                              !.elapsed_ns = Elapsed(stack[th][Len(stack[th])].start, end)]]
    /\ pc' = [pc EXCEPT ![th] = "tree_out"]
    /\ UNCHANGED <<config, flags, sinks, log_depth, stack, files, fclosed, released, writes,
                   timers, finished, budget, fmt, stream>>

\* FILE* tree_out = time_it_tree_file ? time_it_tree_file : stderr;   (line 69)
ResolveTree(th) ==
    /\ pc[th] = "tree_out"
    /\ LET h == Resolve(time_it_tree_file[link[job[th].t.unit]])
       IN  job' = [job EXCEPT ![th].tree_out = h,
                              ![th].live = IF IsClosed(Cur, h) THEN @ ELSE @ \cup {"tree"}]
    /\ pc' = [pc EXCEPT ![th] = "csv_out"]
    /\ UNCHANGED <<config, flags, sinks, log_depth, stack, files, fclosed, released, writes,
                   timers, finished, now, budget, fmt, stream>>

\* FILE* csv_out = time_it_csv_file ? time_it_csv_file : stderr;   (line 70)
ResolveCsv(th) ==
    /\ pc[th] = "csv_out"
    /\ LET h == Resolve(time_it_csv_file[link[job[th].t.unit]])
       IN  job' = [job EXCEPT ![th].csv_out = h,
                              ![th].live = IF IsClosed(Cur, h) THEN @ ELSE @ \cup {"csv"}]
    /\ pc' = [pc EXCEPT ![th] = "tree_if"]
    /\ UNCHANGED <<config, flags, sinks, log_depth, stack, files, fclosed, released, writes,
                   timers, finished, now, budget, fmt, stream>>

\* if (time_it_enable_tree)   (line 72)
TreeIf(th) ==
    /\ pc[th] = "tree_if"
    /\ IF time_it_enable_tree[link[job[th].t.unit]]
       THEN /\ \E r \in print_scientific(IntDigits(job[th].elapsed_ns)) :
                 job' = [job EXCEPT ![th].todo = TreeFragments(job[th].t, r),
                                    ![th].done = <<>>]
            /\ pc' = [pc EXCEPT ![th] = "tree"]
       ELSE /\ pc' = [pc EXCEPT ![th] = "csv_if"]
            /\ UNCHANGED job
    /\ UNCHANGED <<config, flags, sinks, log_depth, stack, files, fclosed, released, writes,
                   timers, finished, now, budget, fmt, stream>>

\* if (time_it_enable_csv)   (line 81)
CsvIf(th) ==
    /\ pc[th] = "csv_if"
    /\ IF time_it_enable_csv[link[job[th].t.unit]]
       THEN /\ \E r \in print_scientific(IntDigits(job[th].elapsed_ns)) :
                 job' = [job EXCEPT ![th].todo = CsvFragments(job[th].t, r),
                                    ![th].done = <<>>]
            /\ pc' = [pc EXCEPT ![th] = "csv"]
       ELSE /\ pc' = [pc EXCEPT ![th] = "end"]
            /\ UNCHANGED job
    /\ UNCHANGED <<config, flags, sinks, log_depth, stack, files, fclosed, released, writes,
                   timers, finished, now, budget, fmt, stream>>

\* the next fprintf / fputs of the branch th is in (lines 74-78, 83-85).  A
\* call on a stream closed since it was resolved is undefined: the text may
\* reach the file or be lost.
Fput(th) ==
    /\ pc[th] \in {"tree", "csv"}
    /\ LET h    == OutStream(job[th], pc[th])
           text == Head(job[th].todo)
       IN  \E b \in IF IsClosed(Cur, h) THEN BOOLEAN ELSE {TRUE} :
              stream' = [stream EXCEPT ![h] =
                  IF text = <<"\n">> THEN <<>>
                  ELSE Append(@, [th |-> th, id |-> job[th].t.id, fmt |-> pc[th],
                                  text |-> text, stale |-> IsClosed(Cur, h),
                                  raced |-> IsClosed(Cur, h) /\ pc[th] \in job[th].live,
                                  landed |-> b])]
    /\ job' = [job EXCEPT ![th].todo = Tail(@), ![th].done = Append(@, Head(job[th].todo))]
    /\ pc' = [pc EXCEPT ![th] = IF Len(job[th].todo) > 1 THEN @
                                 ELSE IF @ = "tree" THEN "csv_if" ELSE "end"]
    /\ UNCHANGED <<config, flags, sinks, log_depth, stack, files, fclosed, released, writes,
                   timers, finished, now, budget, fmt>>

\* log_depth--; and the timer is gone   (lines 145-146, 206-207)
EndFinish(th) ==
    /\ pc[th] = "end"
    /\ log_depth' = DepthAfterFinish(Cur, job[th].t.unit, th)
    /\ finished' = Append(finished, job[th].t.id)
    /\ stack' = [stack EXCEPT ![th] = SubSeq(@, 1, Len(@) - 1)]
    /\ pc' = [pc EXCEPT ![th] = "idle"]
    /\ job' = [job EXCEPT ![th] = NoJob]
    /\ UNCHANGED <<config, flags, sinks, files, fclosed, released, writes, timers, now,
                   budget, fmt, stream>>

NextMT ==
    \/ \E th \in Threads, fn \in Funcs, cat \in Categories : Arm(th, fn, cat)
    \/ \E th \in Threads, fn \in Funcs, b \in Basenames, tree_ok, csv_ok \in BOOLEAN :
         Install(th, fn, b, tree_ok, csv_ok)
    \/ \E th \in Threads : Release(th)
    \/ \E th \in Threads : BeginFinish(th)
    \/ \E th \in Threads : ResolveTree(th)
    \/ \E th \in Threads : ResolveCsv(th)
    \/ \E th \in Threads : TreeIf(th)
    \/ \E th \in Threads : Fput(th)
    \/ \E th \in Threads : CsvIf(th)
    \/ \E th \in Threads : EndFinish(th)

SpecMT == InitMT /\ [][NextMT]_vars


(***************************************************************************)
(* One timed scope, armed at an instant around a turn of the second and    *)
(* left after a wait around one second.  The sums stay far below the range *)
(* of `long`.                                                              *)
(***************************************************************************)
MaxBootSec == 1

\* tv_nsec fields at the edges of 0..999999999
EdgeNanos ==
    { 0, 1, NanosPerSec \div 2, NanosPerSec - Tick - 1, NanosPerSec - Tick,
      NanosPerSec - 2, NanosPerSec - 1 }

\* how long the body of the timed scope runs
Waits ==
    { 1, Tick, NanosPerSec \div 2, NanosPerSec - Tick - 1, NanosPerSec - Tick,
      NanosPerSec - 1, NanosPerSec, NanosPerSec + 1 }

InitElapsed ==
    /\ lang \in [Units -> Langs]
    /\ LOG_ENABLE_TIMING = [u \in Units |-> TRUE]
    /\ link \in Links(lang, LOG_ENABLE_TIMING)
    /\ host = [timers |-> 1, installs |-> 0, noops |-> 0, sets |-> 0]
    /\ log_depth = [u \in Units |-> [th \in Threads |-> 0]]
    /\ time_it_tree_file = [u \in Units |-> NULL]
    /\ time_it_csv_file = [u \in Units |-> NULL]
    /\ nulled = [tree |-> FALSE, csv |-> FALSE]
    /\ time_it_enable_tree = [u \in Units |-> TRUE]
    /\ time_it_enable_csv = [u \in Units |-> TRUE]
    /\ stack = [th \in Threads |-> <<>>]
    /\ files = <<>>
    /\ fclosed = <<>>
    /\ released = {}
    /\ writes = <<>>
    /\ timers = <<>>
    /\ finished = <<>>
    /\ now \in { [tv_sec |-> sec, tv_nsec |-> ns] : sec \in 0..MaxBootSec, ns \in EdgeNanos }
    /\ sets = 0
    /\ installs = 0
    /\ noops = 0
    /\ fmt_in = <<0>>
    /\ fmt_out = <<>>
    /\ pc = [th \in Threads |-> "idle"]
    /\ job = [th \in Threads |-> NoJob]
    /\ stream = [h \in Streams |-> <<>>]

\* the body of the timed scope of th runs for ns nanoseconds
Pass(th, ns) ==
    /\ pc[th] = "idle"
    /\ stack[th] # <<>>
    /\ now = stack[th][Len(stack[th])].start
    /\ now' = Advance(now, ns)
    /\ UNCHANGED <<config, flags, sinks, log_depth, stack, files, fclosed, released, writes,
                   timers, finished, budget, fmt, steps>>

NextElapsed ==
    \/ \E fn \in Funcs, cat \in Categories : Arm(MainThread, fn, cat)
    \/ \E ns \in Waits : Pass(MainThread, ns)
    \/ BeginFinish(MainThread)

SpecElapsed == InitElapsed /\ [][NextElapsed]_vars


(***************************************************************************)
(* Properties.                                                             *)
(***************************************************************************)
Range(q) == { q[i] : i \in 1..Len(q) }

\* where an element sits in a sequence that holds it
Pos(q, x) == CHOOSE p \in 1..Len(q) : q[p] = x

\* the scoped objects of every thread
Objects == UNION { Range(stack[th]) : th \in Threads }

LiveInstallers == { o \in Objects : o.kind = "files" }

\* the source files whose depth counter and sinks some scoped object uses
UsedUnits == { link[u] : u \in { v \in Units : LOG_ENABLE_TIMING[v] } }

\* the records of one format written for a timer
RecordsOf(id, fm) == { k \in 1..Len(writes) : writes[k].id = id /\ writes[k].fmt = fm }

\* the records written and the timers finished by the step being taken
NewWrites == (Len(writes) + 1)..Len(writes')

NewFinished == { finished'[p] : p \in (Len(finished) + 1)..Len(finished') }

NewRecordsOf(id, fm) == { k \in NewWrites : writes'[k].id = id /\ writes'[k].fmt = fm }

\* C1: on every thread, the depth counter equals the number of timers armed on
\* that thread and not yet finished; it is never negative, and it is 0 once
\* every timer of the thread has finished.
C1_DepthCountsLiveTimers ==
    \A u \in UsedUnits, th \in Threads :
        /\ log_depth[u][th] = Cardinality(LiveTimers(stack[th]))
        /\ log_depth[u][th] >= 0
        /\ (LiveTimers(stack[th]) = {} => log_depth[u][th] = 0)

\* C2: within one thread records are written in the order the timers finish;
\* the record of a timer nested inside another timer's scope is written before
\* the record of the enclosing timer (A contains B contains C writes C, B, A),
\* and sibling scopes write in the order their scopes are left.
C2_InnermostFirst ==
    \A i, j \in 1..Len(writes) :
        LET x == writes[i].id
            y == writes[j].id
        IN  (i < j /\ timers[x].thread = timers[y].thread) =>
                /\ x \notin timers[y].encl
                /\ x \in Range(finished) /\ y \in Range(finished)
                /\ Pos(finished, x) <= Pos(finished, y)

\* C2 happens: three timers nested in one another have all finished, and the
\* records came innermost first
C2_Witness ==
    /\ Len(timers) = 3
    /\ timers[2].encl = {1}
    /\ timers[3].encl = {1, 2}
    /\ finished = <<3, 2, 1>>
    /\ Len(writes) = 6
    /\ writes[1].id = 3 /\ writes[3].id = 2 /\ writes[6].id = 1

\* C3: the depth in a timer's record is the snapshot taken when it was armed:
\* the number of timers then live on its thread, so that three nested scopes
\* record 0, 1, 2 from the outermost in, and top-level siblings record 0.
C3_DepthIsNesting ==
    /\ \A o \in Objects :
         o.kind = "timer" => o.depth = Cardinality(timers[o.id].encl)
    /\ \A k \in 1..Len(writes) :
         LET e == writes[k]
             n == Cardinality(timers[e.id].encl)
         IN  /\ e.fmt = "csv" => e.line[1] = ToString(n)
             /\ e.fmt = "tree" => SubSeq(e.line, 1, n + 1) = Indent(n) \o <<e.line[n + 1]>>
             /\ e.fmt = "tree" => e.line[n + 1] # "    "

\* every timer armed is live in exactly one place or finished exactly once
C4_FinishedOnce ==
    /\ \A p, q \in 1..Len(finished) : finished[p] = finished[q] => p = q
    /\ \A id \in 1..Len(timers) :
         LET places == UNION { { <<th, i>> : i \in { j \in 1..Len(stack[th]) :
                                        /\ stack[th][j].kind = "timer"
                                        /\ stack[th][j].id = id } } : th \in Threads }
         IN  IF id \in Range(finished)
             THEN places = {}
             ELSE Cardinality(places) = 1 /\ \A pl \in places : pl[1] = timers[id].thread
    /\ \A id \in Range(finished) :
         Cardinality(RecordsOf(id, "tree")) <= 1 /\ Cardinality(RecordsOf(id, "csv")) <= 1

\* the finish of a timer writes one record to each enabled sink, and only
\* finishing timers write
C4_OneRecordEach ==
    /\ \A id \in NewFinished :
         LET u == link[timers[id].unit]
         IN  /\ Cardinality(NewRecordsOf(id, "tree")) = IF time_it_enable_tree[u] THEN 1 ELSE 0
             /\ Cardinality(NewRecordsOf(id, "csv")) = IF time_it_enable_csv[u] THEN 1 ELSE 0
    /\ \A k \in NewWrites : writes'[k].id \in NewFinished
    /\ \A th \in Threads :
         Len(stack'[th]) < Len(stack[th]) =>
            \A i \in (Len(stack'[th]) + 1)..Len(stack[th]) :
                stack[th][i].kind = "timer" => stack[th][i].id \in NewFinished

\* C4: every timer armed is finished exactly once when control leaves its
\* scope, on every exit path (block exit, return, exception); that finish
\* writes exactly one record to each enabled sink; no timer is finished twice
\* and none stays armed once its scope has been left.
C4_ExactlyOnce == []C4_FinishedOnce /\ [][C4_OneRecordEach]_vars

\* C4 happens: three timers have finished, two records each, none left armed
C4_Witness ==
    /\ Len(timers) = 3
    /\ Range(finished) = {1, 2, 3}
    /\ Len(writes) = 6
    /\ \A th \in Threads : LiveTimers(stack[th]) = {}

\* C5: once no installer is live both sink fields resolve to stderr, and no
\* record is ever written through a stream that has been closed.
C5_ReleaseResetsSinks ==
    /\ LiveInstallers = {} =>
         \A u \in Units : /\ Resolve(time_it_tree_file[u]) = stderr
                          /\ Resolve(time_it_csv_file[u]) = stderr
    /\ \A k \in 1..Len(writes) : ~writes[k].stale

\* C6: the sink configuration is process-wide: while an installer whose two
\* files opened is live, and the host has called no setter, every record of every
\* timer, whichever source file armed it, goes to the installer's files.
C6_ProcessWideSinks ==
    [][ \A o \in LiveInstallers :
          ( /\ o \in LiveInstallers'
            /\ o.id = installs
            /\ o.tree_f.kind = "file" /\ o.csv_f.kind = "file"
            /\ sets' = 0 )
          => \A k \in NewWrites :
                writes'[k].h = IF writes'[k].fmt = "tree" THEN o.tree_f ELSE o.csv_f ]_vars

\* the shape of the two records of a timer object
IsTreeRecord(line, o) ==
    /\ Len(line) >= o.depth + 6
    /\ SubSeq(line, 1, o.depth + 4) = Indent(o.depth) \o <<o.name, " [", o.category, "]: ">>
    /\ line[Len(line)] = "\n"

IsCsvRecord(line, o) ==
    /\ Len(line) >= 8
    /\ SubSeq(line, 1, 6) = <<ToString(o.depth), ",", o.name, ",", o.category, ",">>
    /\ line[Len(line)] = "\n"

\* a finishing timer writes to a sink exactly when that sink's flag is on,
\* whatever the other flag says, and the record has its format's shape
C7_FlagsIndependent ==
    /\ \A k \in NewWrites :
         LET e == writes'[k]
             u == link[timers[e.id].unit]
         IN  /\ e.fmt = "tree" => time_it_enable_tree[u]
             /\ e.fmt = "csv" => time_it_enable_csv[u]
    /\ \A o \in Objects :
         (o.kind = "timer" /\ o.id \in NewFinished) =>
            /\ time_it_enable_tree[link[o.unit]] =>
                  \E k \in NewRecordsOf(o.id, "tree") : IsTreeRecord(writes'[k].line, o)
            /\ time_it_enable_csv[link[o.unit]] =>
                  \E k \in NewRecordsOf(o.id, "csv") : IsCsvRecord(writes'[k].line, o)

\* a macro compiled out changes nothing of the program's state
C7_MasterSwitchOff ==
    noops' # noops =>
        UNCHANGED <<writes, sinks, flags, log_depth, files, fclosed, stack, timers, finished>>

\* C7: the tree flag and the tabular flag are independent: with one off, a
\* finishing timer writes nothing in that format and still writes its record
\* of the other format; with LOG_ENABLE_TIMING off, TIME_IT and the installer
\* write nothing, change no sink field and leave the depth counter alone.
C7_Switches == [][C7_FlagsIndependent /\ C7_MasterSwitchOff]_vars

\* C7 happens: a disabled macro has run, and a timer has finished with its
\* tabular record written and no tree record
C7_Witness ==
    /\ noops > 0
    /\ \E id \in Range(finished) :
         /\ RecordsOf(id, "tree") = {}
         /\ RecordsOf(id, "csv") # {}
         /\ ~time_it_enable_tree[link[timers[id].unit]]

\* the streams the installer constructed by this step opened
Opened(path) == { i \in (Len(files) + 1)..Len(files') : files'[i].path = path }

\* an install sets each sink to its opened file, or to stderr when the file
\* did not open, and the installer is live afterwards
C8_InstallFallsBack ==
    installs' # installs =>
        \E th \in Threads :
            /\ Len(stack'[th]) = Len(stack[th]) + 1
            /\ LET o == stack'[th][Len(stack'[th])]
                   u == link[o.unit]
                   t == Opened(<<o.basename, ".log">>)
                   c == Opened(<<o.basename, ".csv">>)
               IN  /\ o.kind = "files"
                   /\ Cardinality(t) <= 1 /\ Cardinality(c) <= 1
                   /\ time_it_tree_file'[u] \in IF t = {} THEN {stderr} ELSE { File(i) : i \in t }
                   /\ time_it_csv_file'[u] \in IF c = {} THEN {stderr} ELSE { File(i) : i \in c }
                   /\ \A i \in t \cup c : files'[i].open /\ files'[i].by = o.id

\* the streams of a released installer have been closed once, those of a live
\* installer not at all, and stderr never
C8_ClosedOnce ==
    /\ \A k \in 1..Len(fclosed) : fclosed[k].kind = "file"
    /\ \A k, l \in 1..Len(fclosed) : fclosed[k] = fclosed[l] => k = l
    /\ \A i \in 1..Len(files) :
         /\ files[i].by \in released <=> File(i) \in Range(fclosed)
         /\ files[i].open <=> File(i) \notin Range(fclosed)

\* C8: when a file fails to open at install time that sink alone falls back to
\* stderr and the other sink uses its opened file; the install goes through
\* without an error; the release closes each opened file exactly once and never
\* closes stderr.
C8_OpenFailure == []C8_ClosedOnce /\ [][C8_InstallFallsBack]_vars

\* C8 happens: an installer whose tabular file did not open has been released
C8_Witness ==
    /\ released # {}
    /\ Len(files) = 1
    /\ files[1].path[2] = ".log"
    /\ fclosed = <<File(1)>>

\* |a - b|
DDist(a, b) == IF DLess(a, b) THEN DSub(b, a) ELSE DSub(a, b)

\* a * 10^k
DShift(a, k) == IF a = <<0>> THEN a ELSE a \o Zeros(k)

\* mantissa * 10^exp * 1000 of a rendering, as digits
Rendered(r) == DShift(Strip(r.int \o r.frac), r.exp)

\* |mantissa * 10^exp - d| <= d / 1000
WithinTenthPercent(r, d) ==
    DLeq(DShift(DDist(Rendered(r), DShift(d, 3)), 3), DShift(d, 3))

\* C9: for every duration d >= 0 print_scientific renders an exponent that is
\* the largest multiple of 3 not above floor(log10 d) and a mantissa of exactly
\* three decimals with mantissa * 10^exponent within 0.1% of d; d = 0 renders
\* as "0.0e0".
C9_EngineeringNotation ==
    fmt_out # <<>> =>
        LET r == fmt_out[1]
        IN  IF fmt_in = <<0>>
            THEN SciText(r) = <<"0", ".", "0", "e", "0">>
            ELSE /\ r.exp % 3 = 0
                 /\ r.exp = 3 * ((Len(fmt_in) - 1) \div 3)
                 /\ Len(r.frac) = 3
                 /\ WithinTenthPercent(r, fmt_in)

\* the records of one format written to files
FileRecords(fm) == { k \in 1..Len(writes) : writes[k].fmt = fm /\ writes[k].h.kind = "file" }

\* the fields of a tabular record: depth, name, category, and the duration as
\* mantissa, "e", exponent, with one separator after each of the first three
IsTabular(line, sep) ==
    /\ Len(line) >= 8
    /\ line[1] \in { ToString(n) : n \in 0..MaxTimers }
    /\ line[3] \in { LOG_FUNC_NAME(lg, f) : lg \in Langs, f \in Funcs }
    /\ line[5] \in Categories
    /\ line[2] = sep /\ line[4] = sep /\ line[6] = sep
    /\ line[Len(line) - 2] = "e"
    /\ \E p \in 7..(Len(line) - 3) : line[p] = "."
    /\ \A p \in 7..(Len(line) - 1) : line[p] \notin {",", "\t", "\n"}
    /\ line[Len(line)] = "\n"

\* an installer's streams are B<tree_ext> and B<csv_ext>, each format is written
\* to its own, and tabular fields are separated by sep
OutputFiles(tree_ext, csv_ext, sep) ==
    /\ \A o \in LiveInstallers :
         /\ o.tree_f.kind = "file" => files[o.tree_f.n].path = <<o.basename, tree_ext>>
         /\ o.csv_f.kind = "file" => files[o.csv_f.n].path = <<o.basename, csv_ext>>
    /\ \A i \in 1..Len(files) :
         files[i].path \in { <<b, x>> : b \in Basenames, x \in {tree_ext, csv_ext} }
    /\ \A k \in FileRecords("tree") : files[writes[k].h.n].path[2] = tree_ext
    /\ \A k \in FileRecords("csv") : files[writes[k].h.n].path[2] = csv_ext
    /\ \A k \in 1..Len(writes) :
         writes[k].fmt = "csv" => IsTabular(writes[k].line, sep)

\* C10: an installer given basename B writes the tree output to B.log and the
\* tabular output to B.tsv, and a tabular record is depth, name, category and
\* duration, in that order, separated by tabs.
C10_TsvOutput == OutputFiles(".log", ".tsv", "\t")

\* C11: sinks are resolved at write time: once time_it_set_tree_file(NULL) or
\* time_it_set_csv_file(NULL) has been called, whatever the sink was set to
\* before, and until that sink is set again, every record of that format goes
\* to stderr, as it does for a sink that was never configured.
C11_NullSinkIsStderr ==
    [][ \A k \in NewWrites : nulled[writes'[k].fmt] => writes'[k].h = stderr ]_vars

\* how often a stream has been passed to fclose
TimesClosed(h) == Cardinality({ k \in 1..Len(fclosed) : fclosed[k] = h })

\* the installer constructed last
Latest(o) == o.id = installs

\* C12: an inner installer overwrites both sink fields; its release closes only
\* its own files and leaves both sink fields at stderr, not at the outer
\* installer's files; the outer installer's files stay open until the outer
\* release; every opened file is closed exactly once.
C12_NestedInstallers ==
    /\ \A o, q \in LiveInstallers :
         (Latest(o) /\ q.id < o.id) =>
            /\ time_it_tree_file[link[q.unit]] = Installed(o.tree_f)
            /\ time_it_csv_file[link[q.unit]] = Installed(o.csv_f)
    /\ \A q \in LiveInstallers :
         (installs \in released /\ q.id < installs) =>
            /\ Resolve(time_it_tree_file[link[q.unit]]) = stderr
            /\ Resolve(time_it_csv_file[link[q.unit]]) = stderr
    /\ \A i \in 1..Len(files) :
         /\ files[i].by \notin released => files[i].open /\ TimesClosed(File(i)) = 0
         /\ files[i].by \in released => ~files[i].open /\ TimesClosed(File(i)) = 1

\* the timers below position i of a stack: the timed scopes active when the
\* object at i was constructed
ActiveBelow(st, i) == { j \in 1..(i - 1) : st[j].kind = "timer" }

\* C13: a timer's recorded depth is the number of timed scopes active on its
\* thread when it was armed, whichever source files armed them: there is one
\* depth counter per thread, not one per including source file.
C13_OneCounterPerThread ==
    /\ \A th \in Threads : \A i \in 1..Len(stack[th]) :
         stack[th][i].kind = "timer" =>
            stack[th][i].depth = Cardinality(ActiveBelow(stack[th], i))
    /\ \A th \in Threads : \A u, v \in UsedUnits : log_depth[u][th] = log_depth[v][th]

\* the depth a record shows: the indent units of a tree line, the first field
\* of a tabular line
ShownDepth(w) ==
    IF w.fmt = "csv" THEN w.line[1]
    ELSE ToString(Cardinality({ i \in 1..Len(w.line) :
                                   \A j \in 1..i : w.line[j] = "    " }))

\* C14: every record is written while the depth counter of the writing thread
\* is the depth the record shows plus one, in C and in C++ ...
C14_CounterAtEmission ==
    \A k \in 1..Len(writes) : ShownDepth(writes[k]) = ToString(writes[k].counter - 1)

\* ... and the step that finishes a timer leaves the counter below the value
\* it had for each of the timer's records: the decrement follows the emission
\* to every enabled sink.
C14_DecrementFollows ==
    \A id \in NewFinished : \A k \in NewWrites :
        writes'[k].id = id =>
            log_depth'[link[timers[id].unit]][timers[id].thread] < writes'[k].counter

C14_EmitBeforeDecrement == []C14_CounterAtEmission /\ [][C14_DecrementFollows]_vars

\* a nested timer of a C file and a timer of a C++ file have finished, each
\* with its tree line and its tabular record
C14_Witness ==
    /\ \E k \in 1..Len(writes) : writes[k].counter = 2
    /\ \A lg \in Langs : \E i \in 1..Len(finished) :
         /\ lang[timers[finished[i]].unit] = lg
         /\ RecordsOf(finished[i], "tree") # {}
         /\ RecordsOf(finished[i], "csv") # {}

\* the live timers of thread th that count in the counter source file u uses
OwnLive(th, u) ==
    { i \in 1..Len(stack[th]) : stack[th][i].kind = "timer" /\ link[stack[th][i].unit] = u }

\* C15: a thread's counter and the depths its timers record are a function of
\* that thread's own live timers ...
C15_OwnTimersOnly ==
    \A th \in Threads :
        /\ \A u \in Units : u = link[u] => log_depth[u][th] = Cardinality(OwnLive(th, u))
        /\ \A i \in 1..Len(stack[th]) :
             stack[th][i].kind = "timer" =>
                stack[th][i].depth =
                    Cardinality({ j \in OwnLive(th, link[stack[th][i].unit]) : j < i })

\* ... and a step of one thread leaves the counters of the others alone
C15_OthersUntouched ==
    \A th \in Threads :
        (stack'[th] = stack[th] /\ pc'[th] = pc[th]) =>
            \A u \in Units : log_depth'[u][th] = log_depth[u][th]

C15_ThreadsIndependent == []C15_OwnTimersOnly /\ [][C15_OthersUntouched]_vars

\* a thread arms a timer at depth 0 while another thread's counter for the
\* same source file is 1, and that other thread is in the middle of a finish
C15_Witness ==
    \E th, x \in Threads : \E u \in Units :
        /\ th # x
        /\ log_depth[u][th] = 1 /\ log_depth[u][x] = 1
        /\ pc[x] = "tree"
        /\ stack[th] # <<>> /\ stack[x] # <<>>
        /\ stack[th][1].id > stack[x][1].id
        /\ stack[th][1].depth = 0

\* the calls noted in the current line of stream h
Calls(h) == { stream[h][k] : k \in 1..Len(stream[h]) }

\* the thread that made call e is still in the branch that made it
StillIn(e) == pc[e.th] = e.fmt /\ job[e.th].t.id = e.id

\* C16: nothing orders an emission against the release of an installer.  An
\* emission writes every fragment to the stream it resolved on entry, whatever
\* has happened to the sink and the file since; a file written after its
\* close is one an installer's release has closed, and in C++ that happens
\* only to an emission that resolved the file while it was open.
C16_UnsynchronisedSinks ==
    \A h \in Streams : \A e \in Calls(h) :
        /\ StillIn(e) => h = (IF e.fmt = "tree" THEN job[e.th].tree_out
                              ELSE job[e.th].csv_out)
        /\ e.stale => h.kind = "file" /\ files[h.n].by \in released
        /\ (e.stale /\ lang[timers[e.id].unit] = "cpp") => e.raced

\* a thread inside log_timer_end has written to a file that was open when it
\* resolved the sink and that the other thread's release has closed since
C16_Witness ==
    \E h \in Streams : \E e \in Calls(h) :
        /\ e.raced /\ StillIn(e)
        /\ h.kind = "file" /\ ~files[h.n].open /\ files[h.n].by \in released
        /\ \A th \in Threads : stack[th] # <<>> => th = e.th

RECURSIVE Flatten(_)
\* the texts of a sequence of calls, joined
Flatten(q) == IF q = <<>> THEN <<>> ELSE Head(q) \o Flatten(Tail(q))

\* the calls of thread th in the current line of stream h, in order
PartOf(h, th) ==
    LET F[k \in 0..Len(stream[h])] ==
            IF k = 0 THEN <<>>
            ELSE IF stream[h][k].th = th THEN Append(F[k - 1], stream[h][k].text)
                 ELSE F[k - 1]
    IN  F[Len(stream[h])]

IsSuffix(a, b) == Len(a) <= Len(b) /\ a = SubSeq(b, Len(b) - Len(a) + 1, Len(b))

\* no thread other than th has started to write
OnlyWriter(th) ==
    /\ \A i \in 1..Len(finished) : timers[finished[i]].thread = th
    /\ \A x \in Threads \ {th} : pc[x] \in {"idle", "tree_out", "csv_out", "tree_if"}

Writing(th) == pc[th] \in {"tree", "csv"}

\* how many separate calls write a record of the branch th is in
CallsOf(th) == IF pc[th] = "tree" THEN job[th].t.depth + 3 ELSE 3

\* C17: a record is written by several calls - one per indent unit, one for
\* name and category, one for the duration, one for the newline - which
\* together make the record's line; the calls of one thread reach the stream
\* in order, and while a single thread writes, the current line of the stream
\* is the record written so far and nothing else.
C17_FragmentsOfOneThread ==
    \A th \in Threads : Writing(th) =>
        LET j == job[th]
            h == OutStream(j, pc[th])
        IN  /\ Len(j.done) + Len(j.todo) = CallsOf(th)
            /\ \E r \in print_scientific(IntDigits(j.elapsed_ns)) :
                  Flatten(j.done \o j.todo) =
                      (IF pc[th] = "tree" THEN TreeLine(j.t, r) ELSE CsvLine(j.t, r))
            /\ IsSuffix(PartOf(h, th), j.done)
            /\ OnlyWriter(th) =>
                  /\ \A e \in Calls(h) : e.th = th /\ e.id = j.t.id /\ e.fmt = pc[th]
                  /\ PartOf(h, th) = j.done

\* the current line of a stream holds a fragment of one thread's record
\* between two fragments of the other thread's record
C17_Witness ==
    \E h \in Streams : \E a, b, c \in 1..Len(stream[h]) :
        /\ a < b /\ b < c
        /\ stream[h][a].th = stream[h][c].th /\ stream[h][a].id = stream[h][c].id
        /\ stream[h][a].fmt = stream[h][c].fmt
        /\ stream[h][b].th # stream[h][a].th /\ stream[h][b].id # stream[h][a].id

\* an instant in nanoseconds, in decimal: the seconds followed by the nine
\* digits of the nanosecond field
Nanos(ts) ==
    Strip(IntDigits(ts.tv_sec)
          \o Zeros(9 - Len(IntDigits(ts.tv_nsec))) \o IntDigits(ts.tv_nsec))

\* C18: for a start and an end reading with end not before start, the elapsed
\* value computed at the finish is end minus start in nanoseconds and is not
\* negative, also when end.tv_nsec is smaller than start.tv_nsec.
C18_ElapsedIsDifference ==
    \A th \in Threads : pc[th] = "tree_out" =>
        /\ DLeq(Nanos(job[th].t.start), Nanos(now))
        /\ job[th].elapsed_ns >= 0
        /\ IntDigits(job[th].elapsed_ns) = DSub(Nanos(now), Nanos(job[th].t.start))

\* a finish whose end reading has the smaller nanosecond field
C18_Witness ==
    \E th \in Threads :
        /\ pc[th] = "tree_out"
        /\ now.tv_nsec < job[th].t.start.tv_nsec
        /\ now.tv_sec = job[th].t.start.tv_sec + 1
        /\ job[th].elapsed_ns < NanosPerSec

\* C19: a negative elapsed value is rendered as zero, "0.0e0", or as a flag
\* that is not a mantissa and an exponent; it never takes the general path.
C19_NegativeClamped ==
    fmt_out # <<>> =>
        \/ fmt_out[1] = <<"0", ".", "0", "e", "0">>
        \/ "e" \notin Range(fmt_out[1])

=============================================================================
